---- MODULE Spec2Model ----
(***************************************************************************)
(* Model of the IB Gateway connection pool of ib_service                   *)
(* (src/ib_service/connection_manager.py): IBConnection, IBConnectionPool, *)
(* the get_connection context manager, the retry wrapper of                *)
(* _ensure_connected, the heartbeat monitor task and shutdown.             *)
(*                                                                         *)
(* The pool runs on one asyncio event loop: code between two suspending    *)
(* awaits runs atomically, so each action below is one such stretch.  An   *)
(* await that cannot suspend (an uncontended asyncio.Lock, put() on an     *)
(* unbounded asyncio.Queue, awaiting a finished task) is part of the       *)
(* stretch it occurs in.                                                   *)
(***************************************************************************)
EXTENDS Integers, Sequences, FiniteSets

\* ---------------------------------------------------------------- bounds
\* Largest pool capacity explored (config.max_connections is configurable).
MaxConnections == 2
\* Number of concurrent request tasks using a pool of capacity 1; each
\* further session of capacity takes one task away (see ActiveCallers).
NumCallers == 3
\* Number of times initialize may build a set of sessions.
MaxGenerations == 2
\* stop_after_attempt(config.connection_retry_attempts); configurable,
\* instantiated small here.
connection_retry_attempts == 2

Callers == 1..NumCallers
\* IBConnection objects that can ever be created; 0 stands for None.
Objs == 1..(MaxGenerations * MaxConnections)

VARIABLES
    max_connections,        \* IBConnectionPool.max_connections
    initialized,            \* IBConnectionPool.initialized
    generation,             \* how many times initialize has built sessions
    connections,            \* IBConnectionPool.connections: client_id -> object
    available_connections,  \* the asyncio.Queue's items, head first
    getters,                \* the asyncio.Queue's waiting getters, head first
    conn,                   \* the fields of every IBConnection object
    lock,                   \* IBConnection.lock: "free", "caller", "shutdown"
    pc,                     \* where each caller is inside get_connection
    held,                   \* each caller's local variable `connection`
    attempt,                \* connect() calls made by the caller's current retry
    deadline_passed,        \* the caller is still reconnecting 30 s after its call
    last_result,            \* how the last finished call ended
    hb_pc,                  \* the heartbeat task: none, sleep, probe, cancelled, done
    hb_i,                   \* client_id of the session the monitor is probing
    sd_pc,                  \* shutdown(): idle, await_task, lock_wait, disconnecting, returned
    sd_i,                   \* client_id of the session shutdown is disconnecting
    sd_raised,              \* a client's disconnect raised during this shutdown
    lost_in_use,            \* history: sessions whose connection dropped during
                            \* a lease and that no connect() has restored since
    \* main.py: the single global client and get_ib_connection
    ib_client,              \* the global ib_client: "none", "up", "down"
    call,                   \* get_ib_connection: "idle" or inside its "loop"
    idx,                    \* position of the loop in client_ids_to_try
    last_error,             \* the local last_error: "none" or a message
    response,               \* how the last call ended: a client or a 503
    calls,                  \* calls of get_ib_connection made so far
    ids_in_use,             \* gateway: client ids other programs hold
    rejected_ids,           \* history: ids rejected as already in use
    \* one IBConnection followed in time
    now,                    \* seconds since the pool was initialized
    session,                \* the IBConnection's fields, timestamps in seconds
    monitor_at,             \* when the monitor's sleep ends
    heartbeat_recorded,     \* history: heartbeat() succeeded since connect()
    \* one call of _ensure_connected with the gateway's error classes
    ec_pc,                  \* "idle", "connecting" or "waiting" (tenacity's sleep)
    ec_client_id,           \* the session's client_id
    ec_healthy,             \* the session's is_healthy()
    ec_attempt,             \* tenacity's attempt_number
    ec_error,               \* class of the last failed connect(), or "none"
    ec_delay,               \* seconds slept between attempts in this call
    ec_calls,               \* calls of _ensure_connected made so far
    \* data_processor.py: the DataCache
    cache,                  \* DataCache.cache: key -> entry
    cache_op,               \* history: the last operation on the cache
    \* main.py: the candidate list of one call
    base_id,                \* the local base_id (IB_CLIENT_ID)
    shuffled,               \* the list random.shuffle was given, after it
    tried,                  \* the local client_ids_to_try the loop iterates
    \* main_simple.py / main_fallback.py: connect_to_ib_sync
    cs_client,              \* the global ib_client: "none", "up", "down"
    cs_status,              \* connection_status: connected, client_id, last_error
    cs_attempt,             \* the loop's attempt (0 outside a call)
    cs_result,              \* what the last call returned
    cs_calls                \* calls of connect_to_ib_sync made so far

\* The state of the pool service (main_enhanced.py) and of main.py.
poolVars == <<max_connections, initialized, generation, connections,
              available_connections, getters, conn, lock, pc, held, attempt,
              deadline_passed, last_result, hb_pc, hb_i, sd_pc, sd_i, sd_raised,
              lost_in_use>>
mainVars == <<ib_client, call, idx, last_error, response, calls, ids_in_use,
              rejected_ids>>
sessionVars == <<now, session, monitor_at, heartbeat_recorded>>
ensureVars == <<ec_pc, ec_client_id, ec_healthy, ec_attempt, ec_error,
                ec_delay, ec_calls>>
\* The state of the parts that are followed on their own.
cacheVars == <<cache, cache_op>>
candidateVars == <<base_id, shuffled, tried>>
simpleVars == <<cs_client, cs_status, cs_attempt, cs_result, cs_calls>>
unitVars == <<ensureVars, cacheVars, candidateVars, simpleVars>>
vars == <<poolVars, mainVars, sessionVars, unitVars>>

\* IBConnection.__init__
NewConnection ==
    [connected |-> FALSE, in_use |-> FALSE, ib_client |-> "none",
     last_heartbeat |-> "none", connection_time |-> FALSE]

\* What a call of get_ib_connection gives its caller: the client (status 0)
\* or an HTTPException.
Returned(what) == [status |-> 0, detail |-> what]

\* main.py's globals at import (lines 55-62), before any call.
MainIdle ==
    /\ ib_client = "none"
    /\ call = "idle"
    /\ idx = 0
    /\ last_error = "none"
    /\ response = Returned("none")
    /\ calls = 0
    /\ rejected_ids = {}

\* IBConnection.__init__ with timestamps: <<>> stands for None, <<t>> for
\* the time t.
NewSession ==
    [connected |-> FALSE, ib_client |-> "none", last_heartbeat |-> <<>>,
     connection_time |-> <<>>]

SessionIdle ==
    /\ now = 0
    /\ session = NewSession
    /\ monitor_at = 0
    /\ heartbeat_recorded = FALSE

\* No call of _ensure_connected has been made.
EnsureIdle ==
    /\ ec_pc = "idle"
    /\ ec_client_id = 1
    /\ ec_healthy = FALSE
    /\ ec_attempt = 0
    /\ ec_error = "none"
    /\ ec_delay = 0
    /\ ec_calls = 0

\* DataCache.__init__: an empty dict.
CacheIdle ==
    /\ cache = [k \in {} |-> 0]
    /\ cache_op = [op |-> "none", symbol |-> <<>>, timeframe |-> <<>>,
                   period |-> <<>>, result |-> <<>>]

\* main.py: IB_CLIENT_ID's default (line 47) and the length of client_ids_to_try.
IB_CLIENT_ID == 1
NumClientIds == 6

\* No candidate list has been built.
CandidatesIdle ==
    /\ base_id = IB_CLIENT_ID
    /\ shuffled = <<>>
    /\ tried = <<>>

\* main_simple.py's globals at import (lines 33-40).
SimpleIdle ==
    /\ cs_client = "none"
    /\ cs_status = [connected |-> FALSE, client_id |-> IB_CLIENT_ID,
                    last_error |-> "none"]
    /\ cs_attempt = 0
    /\ cs_result = "none"
    /\ cs_calls = 0

\* The parts followed on their own, at rest.
UnitIdle == EnsureIdle /\ CacheIdle /\ CandidatesIdle /\ SimpleIdle

\* IBConnectionPool.__init__ (no session exists before initialize)
PoolInit(capacities) ==
    /\ max_connections \in capacities
    /\ initialized = FALSE
    /\ generation = 0
    /\ connections = <<>>
    /\ available_connections = <<>>
    /\ getters = <<>>
    /\ conn = [o \in Objs |-> NewConnection]
    /\ lock = [o \in Objs |-> "free"]
    /\ pc = [c \in Callers |-> "idle"]
    /\ held = [c \in Callers |-> 0]
    /\ attempt = [c \in Callers |-> 0]
    /\ deadline_passed = [c \in Callers |-> FALSE]
    /\ last_result = "none"
    /\ hb_pc = "none"
    /\ hb_i = 0
    /\ sd_pc = "idle"
    /\ sd_i = 0
    /\ sd_raised = FALSE
    /\ lost_in_use = {}

\* The pool service: main.py is not part of it.
Init ==
    /\ PoolInit(1..MaxConnections)
    /\ MainIdle
    /\ ids_in_use = {}
    /\ SessionIdle
    /\ UnitIdle

\* ------------------------------------------------------------- helpers
\* The first k elements of a sequence, and the rest.
FirstN(s, k) == SubSeq(s, 1, IF k < Len(s) THEN k ELSE Len(s))
DropN(s, k) == SubSeq(s, (IF k < Len(s) THEN k ELSE Len(s)) + 1, Len(s))
Range(s) == {s[i] : i \in 1..Len(s)}
Without(s, x) == SelectSeq(s, LAMBDA y : y # x)

\* IBConnection.is_healthy: connected and a heartbeat younger than
\* 2 * heartbeat_timeout; no heartbeat recorded gives False (line 161).
is_healthy(s) == s.connected /\ s.last_heartbeat = "fresh"

\* The request tasks that use the pool: enough to saturate a pool of
\* capacity 1 with two waiting callers, as many as sessions at capacity 2.
ActiveCallers == 1..(NumCallers + 1 - max_connections)

\* The objects the n-th run of initialize's loop creates, by client_id.
SessionsOf(g) == [i \in 1..max_connections |-> (g - 1) * max_connections + i]

\* Queue.put_nowait k times: each put wakes the longest-waiting getter
\* (asyncio.Queue._wakeup_next), whose future is resolved and which leaves
\* the getters deque; it runs again only at a later loop iteration.
WakeGetters(pcf, gs, k) ==
    [c \in Callers |-> IF c \in Range(FirstN(gs, k)) THEN "woken" ELSE pcf[c]]

\* ---------------------------------------------------- IBConnection.connect
\* connect() once the caller holds the session's lock (lines 44-64): an
\* underlying client that reports connected returns True at once, without
\* touching `connected`; otherwise a new IB() is created and the blocking
\* connect runs in the executor.  A True result makes get_connection set
\* in_use and yield (lines 235-236).
ConnectLocked(c, o, pcb) ==
    IF conn[o].ib_client = "up"
    THEN /\ conn' = [conn EXCEPT ![o].in_use = TRUE]
         /\ pc' = [pcb EXCEPT ![c] = "using"]
         /\ UNCHANGED lock
    ELSE /\ conn' = [conn EXCEPT ![o].ib_client = "down"]
         /\ lock' = [lock EXCEPT ![o] = "caller"]
         /\ pc' = [pcb EXCEPT ![c] = "connecting"]

\* The n-th call of connection.connect() made by _connect_with_retry
\* (line 260); `async with self.lock` waits while shutdown's disconnect
\* holds the lock.
ConnectCall(c, o, n, pcb) ==
    /\ attempt' = [attempt EXCEPT ![c] = n]
    /\ IF lock[o] # "free"
       THEN /\ pc' = [pcb EXCEPT ![c] = "lock_wait"]
            /\ UNCHANGED <<conn, lock>>
       ELSE ConnectLocked(c, o, pcb)

\* get_connection after the queue handed over session o (lines 229-236).
HandOff(c, o, pcb) ==
    /\ held' = [held EXCEPT ![c] = o]
    /\ IF is_healthy(conn[o])
       THEN /\ conn' = [conn EXCEPT ![o].in_use = TRUE]
            /\ pc' = [pcb EXCEPT ![c] = "using"]
            /\ UNCHANGED <<lock, attempt>>
       ELSE ConnectCall(c, o, 1, pcb)

\* ------------------------------------------------ IBConnectionPool.initialize
\* An initialize without the `initialized` check.
InitializeUnguarded == TRUE

\* Line 178: with `initialized` set, initialize returns at once.
InitializeGuard == ~initialized

\* initialize() runs without suspending: pool_lock is never held across a
\* suspension and the queue is unbounded.  It creates the sessions, queues
\* them (waking waiting getters) and starts the heartbeat task.
Initialize ==
    /\ last_result' = "initialize"
    /\ IF InitializeGuard
       THEN /\ generation < MaxGenerations
            /\ generation' = generation + 1
            /\ connections' = SessionsOf(generation + 1)
            /\ available_connections' =
                   available_connections \o SessionsOf(generation + 1)
            /\ getters' = DropN(getters, max_connections)
            /\ pc' = WakeGetters(pc, getters, max_connections)
            /\ hb_pc' = "sleep"
            /\ hb_i' = 0
            /\ initialized' = TRUE
       ELSE UNCHANGED <<generation, connections, available_connections,
                        getters, pc, hb_pc, hb_i, initialized>>
    /\ UNCHANGED <<mainVars, sessionVars, unitVars, lost_in_use,
                   max_connections, conn, lock, held, attempt,
                   deadline_passed, sd_pc, sd_i, sd_raised>>

\* ---------------------------------------------- IBConnectionPool.get_connection
\* A queue that keeps the item it hands out.
DequeueKeeps(q) == q

\* Queue.get() removes the item it returns (line 225).
Dequeue(q) == Tail(q)

\* A get_connection behind a pool-wide lock that is held across connect
\* and probe.
AcquireBehindPoolLock ==
    /\ \A d \in Callers : pc[d] \notin {"lock_wait", "connecting", "backoff"}
    /\ hb_pc # "probe"

\* get_connection takes no lock before Queue.get() (lines 218-227):
\* pool_lock guards initialize only, and each connect() and heartbeat()
\* locks its own session.
AcquireReady == TRUE

\* Entering the context manager (lines 218-236): initialize if needed, then
\* Queue.get(): an item is taken at once when the queue is not empty (even
\* if a woken getter has not run yet), otherwise the caller joins the
\* getters.  Idle request tasks carry no state, so the next request is
\* given to the lowest-numbered idle one.
GetConnection(c) ==
    /\ c \in ActiveCallers
    /\ pc[c] = "idle"
    /\ AcquireReady
    /\ \A d \in Callers : d < c => pc[d] # "idle"
    /\ initialized \/ generation < MaxGenerations
    /\ LET init == ~initialized
           q0 == IF init
                 THEN available_connections \o SessionsOf(generation + 1)
                 ELSE available_connections
           g0 == IF init THEN DropN(getters, max_connections) ELSE getters
           pc0 == IF init THEN WakeGetters(pc, getters, max_connections) ELSE pc
       IN  /\ initialized' = TRUE
           /\ generation' = IF init THEN generation + 1 ELSE generation
           /\ connections' = IF init THEN SessionsOf(generation + 1) ELSE connections
           /\ hb_pc' = IF init THEN "sleep" ELSE hb_pc
           /\ hb_i' = IF init THEN 0 ELSE hb_i
           /\ IF q0 = <<>>
              THEN /\ getters' = Append(g0, c)
                   /\ available_connections' = q0
                   /\ pc' = [pc0 EXCEPT ![c] = "waiting"]
                   /\ UNCHANGED <<conn, lock, held, attempt>>
              ELSE /\ getters' = g0
                   /\ available_connections' = Dequeue(q0)
                   /\ HandOff(c, Head(q0), pc0)
    /\ UNCHANGED <<mainVars, sessionVars, unitVars, lost_in_use,
                   max_connections, deadline_passed, last_result,
                   sd_pc, sd_i, sd_raised>>

\* A woken getter runs again (the `while self.empty()` loop of Queue.get):
\* if another caller emptied the queue meanwhile it queues a new future at
\* the back of the getters.
Resume(c) ==
    /\ pc[c] = "woken"
    /\ IF available_connections = <<>>
       THEN /\ getters' = Append(getters, c)
            /\ pc' = [pc EXCEPT ![c] = "waiting"]
            /\ UNCHANGED <<available_connections, conn, lock, held, attempt>>
       ELSE /\ available_connections' = Dequeue(available_connections)
            /\ HandOff(c, Head(available_connections), pc)
            /\ UNCHANGED getters
    /\ UNCHANGED <<mainVars, sessionVars, unitVars, lost_in_use,
                   max_connections, initialized, generation, connections,
                   deadline_passed, last_result, hb_pc, hb_i, sd_pc, sd_i, sd_raised>>

\* The phases of get_connection after the queue handed over a session and
\* before the caller gets it: inside _ensure_connected (line 231).
Reconnecting == {"lock_wait", "connecting", "backoff"}

\* Time: 30 s (the timeout of line 226) have passed since the call began.
\* wait_for wraps only the wait on the queue, so nothing happens to a
\* caller that is reconnecting.
LeaseDeadline(c) ==
    /\ pc[c] \in Reconnecting
    /\ ~deadline_passed[c]
    /\ deadline_passed' = [deadline_passed EXCEPT ![c] = TRUE]
    /\ UNCHANGED <<mainVars, sessionVars, unitVars, lost_in_use,
                   max_connections, initialized, generation, connections,
                   available_connections, getters, conn, lock, pc, held,
                   attempt, last_result, hb_pc, hb_i, sd_pc, sd_i, sd_raised>>

\* Time: the 30 s pass while the caller waits on the queue, wait_for raises
\* (lines 238-239): `connection` is None, nothing is put back.  A getter
\* that was woken but is cancelled before it ran passes the wake-up on
\* (Queue.get's except branch).
Timeout(c) ==
    /\ pc[c] \in {"waiting", "woken"}
    /\ IF pc[c] = "woken" /\ available_connections # <<>>
       THEN /\ getters' = DropN(getters, 1)
            /\ pc' = [WakeGetters(pc, getters, 1) EXCEPT ![c] = "idle"]
       ELSE /\ getters' = Without(getters, c)
            /\ pc' = [pc EXCEPT ![c] = "idle"]
    /\ last_result' = "pool_timeout"
    /\ UNCHANGED <<mainVars, sessionVars, unitVars, lost_in_use,
                   max_connections, initialized, generation, connections,
                   available_connections, conn, lock, held, attempt,
                   deadline_passed, hb_pc, hb_i, sd_pc, sd_i, sd_raised>>

\* A release that puts the session into the queue twice.
PutTwice(q, o) == Append(Append(q, o), o)

\* Queue.put (line 244): the item goes to the tail of the queue.
Put(q, o) == Append(q, o)

\* Leaving the context manager (finally, lines 241-244): in_use is cleared
\* and the session is put at the tail of the queue, which wakes the
\* longest-waiting getter.
PutBack(c, o) ==
    /\ conn' = [conn EXCEPT ![o].in_use = FALSE]
    /\ available_connections' = Put(available_connections, o)
    /\ getters' = DropN(getters, 1)
    /\ pc' = [WakeGetters(pc, getters, 1) EXCEPT ![c] = "idle"]
    /\ held' = [held EXCEPT ![c] = 0]
    /\ attempt' = [attempt EXCEPT ![c] = 0]
    /\ deadline_passed' = [deadline_passed EXCEPT ![c] = FALSE]

\* How the caller's block ends: normally, with an exception, or with an
\* asyncio.TimeoutError of its own, which the except clause of line 238
\* turns into the pool's timeout error.
BodyOutcomes == {"ok", "error", "timeout_error"}

ReleaseResult(outcome) ==
    CASE outcome = "ok" -> "ok"
      [] outcome = "error" -> "error"
      [] outcome = "timeout_error" -> "pool_timeout"

\* A put-back written after the yield instead of in a finally block.
FinallyRunsOnSuccess(how) == how = "ok"

\* A put-back that is skipped when the reconnect failed.
FinallyRunsAfterYield(how) == how \in BodyOutcomes

\* The put-back is in a finally block (line 241): it runs however the
\* block or the reconnect ended.
FinallyRuns(how) == how \in BodyOutcomes \cup {"connect_failed"}

Release(c) ==
    /\ pc[c] = "using"
    /\ \E outcome \in BodyOutcomes :
          /\ last_result' = ReleaseResult(outcome)
          /\ IF FinallyRuns(outcome)
             THEN PutBack(c, held[c])
             ELSE /\ pc' = [pc EXCEPT ![c] = "idle"]
                  /\ held' = [held EXCEPT ![c] = 0]
                  /\ UNCHANGED <<conn, available_connections, getters,
                                 attempt, deadline_passed>>
    /\ UNCHANGED <<mainVars, sessionVars, unitVars, lost_in_use,
                   max_connections, initialized, generation, connections,
                   lock, hb_pc, hb_i, sd_pc, sd_i, sd_raised>>

\* ------------------------------------------- _ensure_connected / tenacity
\* A stop condition that allows one attempt too many.
StopAfterAttemptOffByOne(n) == n > connection_retry_attempts

\* stop_after_attempt(config.connection_retry_attempts), line 252.
StopAfterAttempt(n) == n >= connection_retry_attempts

\* What the error of a failed get_connection is (line 233).
ConnectFailedResult == "connect_failed"

\* How the executor's blocking connect can end (lines 58-90).
ConnectOutcomes == {"connected", "timeout", "refused", "not_connected"}

\* The blocking connect finishes.  Success sets the session's fields and
\* the caller is handed the session; a failure clears `connected`, and
\* either the retry sleeps before the next attempt or, with the attempts
\* used up, _ensure_connected returns False, get_connection raises and
\* its finally puts the session back.
ConnectDone(c) ==
    /\ pc[c] = "connecting"
    /\ LET o == held[c] IN
       \E outcome \in ConnectOutcomes :
          /\ lock' = [lock EXCEPT ![o] = "free"]
          /\ lost_in_use' = IF outcome = "connected"
                            THEN lost_in_use \ {o}
                            ELSE lost_in_use
          /\ IF outcome = "connected"
             THEN /\ conn' = [conn EXCEPT ![o] =
                        [connected |-> TRUE, in_use |-> TRUE,
                         ib_client |-> "up", last_heartbeat |-> "fresh",
                         connection_time |-> TRUE]]
                  /\ pc' = [pc EXCEPT ![c] = "using"]
                  /\ UNCHANGED <<available_connections, getters, held,
                                 attempt, deadline_passed, last_result>>
             ELSE IF ~StopAfterAttempt(attempt[c])
             THEN /\ conn' = [conn EXCEPT ![o].connected = FALSE]
                  /\ pc' = [pc EXCEPT ![c] = "backoff"]
                  /\ UNCHANGED <<available_connections, getters, held,
                                 attempt, deadline_passed, last_result>>
             ELSE /\ last_result' = ConnectFailedResult
                  /\ IF FinallyRuns("connect_failed")
                     THEN /\ conn' = [conn EXCEPT ![o].connected = FALSE,
                                                  ![o].in_use = FALSE]
                          /\ available_connections' =
                                 Put(available_connections, o)
                          /\ getters' = DropN(getters, 1)
                          /\ pc' = [WakeGetters(pc, getters, 1)
                                        EXCEPT ![c] = "idle"]
                     ELSE /\ conn' = [conn EXCEPT ![o].connected = FALSE]
                          /\ pc' = [pc EXCEPT ![c] = "idle"]
                          /\ UNCHANGED <<available_connections, getters>>
                  /\ held' = [held EXCEPT ![c] = 0]
                  /\ attempt' = [attempt EXCEPT ![c] = 0]
                  /\ deadline_passed' = [deadline_passed EXCEPT ![c] = FALSE]
    /\ UNCHANGED <<mainVars, sessionVars, unitVars, max_connections, initialized,
                   generation, connections, hb_pc, hb_i, sd_pc, sd_i, sd_raised>>

\* The retry's wait_exponential sleep ends and connect() is called again.
RetryConnect(c) ==
    /\ pc[c] = "backoff"
    /\ ConnectCall(c, held[c], attempt[c] + 1, pc)
    /\ UNCHANGED <<mainVars, sessionVars, unitVars, lost_in_use,
                   max_connections, initialized, generation, connections,
                   available_connections, getters, held, deadline_passed,
                   last_result, hb_pc, hb_i, sd_pc, sd_i, sd_raised>>

\* connect() gets the session's lock once disconnect() has released it.
LockAcquired(c) ==
    /\ pc[c] = "lock_wait"
    /\ lock[held[c]] = "free"
    /\ ConnectLocked(c, held[c], pc)
    /\ UNCHANGED <<mainVars, sessionVars, unitVars, lost_in_use,
                   max_connections, initialized, generation, connections,
                   available_connections, getters, held, attempt,
                   deadline_passed, last_result, hb_pc, hb_i, sd_pc, sd_i, sd_raised>>

\* ------------------------------------------------------ the heartbeat task
\* A monitor that does not look at in_use.
ProbedAnyConnected(s) == s.connected /\ s.ib_client # "none"

\* Line 283: only a connected session that is not in use is probed; and
\* heartbeat() itself returns at once without a client (line 125).
Probed(s) == s.connected /\ ~s.in_use /\ s.ib_client # "none"

\* The first client_id from i on whose session the loop of line 282 probes;
\* 0 when the loop reaches its end.
NextProbe(i) ==
    LET js == {j \in i..Len(connections) : Probed(conn[connections[j]])}
    IN  IF js = {} THEN 0 ELSE CHOOSE j \in js : \A k \in js : j <= k

\* asyncio.sleep(heartbeat_interval) ends and the loop runs to the first
\* session it probes, where heartbeat() suspends in the executor.
MonitorTick ==
    /\ hb_pc = "sleep"
    /\ NextProbe(1) # 0
    /\ hb_pc' = "probe"
    /\ hb_i' = NextProbe(1)
    /\ UNCHANGED <<mainVars, sessionVars, unitVars, lost_in_use,
                   max_connections, initialized, generation, connections,
                   available_connections, getters, conn, lock, pc, held,
                   attempt, deadline_passed, last_result, sd_pc, sd_i, sd_raised>>

\* How the executor's isConnected() can end (lines 130-149).
ProbeOutcomes == {"answer", "error"}

\* A heartbeat that only logs a failed probe.
AfterProbeLogsOnly(s, outcome) ==
    IF outcome = "answer" /\ s.ib_client = "up"
    THEN [s EXCEPT !.last_heartbeat = "fresh"]
    ELSE s

\* heartbeat() after the executor call (lines 135-149): a client that
\* reports connected refreshes last_heartbeat; one that does not, or an
\* exception, clears `connected`, and False is returned.
AfterProbe(s, outcome) ==
    IF outcome = "answer" /\ s.ib_client = "up"
    THEN [s EXCEPT !.last_heartbeat = "fresh"]
    ELSE [s EXCEPT !.connected = FALSE]

\* heartbeat() resumes and returns; the monitor ignores its result and the
\* loop goes on to the next session it probes, or back to sleep.
ProbeDone ==
    /\ hb_pc = "probe"
    /\ LET o == connections[hb_i] IN
       \E outcome \in ProbeOutcomes :
          conn' = [conn EXCEPT ![o] = AfterProbe(conn[o], outcome)]
    /\ hb_i' = NextProbe(hb_i + 1)
    /\ hb_pc' = IF NextProbe(hb_i + 1) = 0 THEN "sleep" ELSE "probe"
    /\ UNCHANGED <<mainVars, sessionVars, unitVars, lost_in_use,
                   max_connections, initialized, generation, connections,
                   available_connections, getters, lock, pc, held,
                   attempt, deadline_passed, last_result, sd_pc, sd_i, sd_raised>>

\* The cancelled task gets CancelledError at its await (the sleep, or the
\* executor call inside heartbeat, whose `except Exception` does not catch
\* it), logs and leaves the loop (lines 286-288).
MonitorCancelled ==
    /\ hb_pc = "cancelled"
    /\ hb_pc' = "done"
    /\ hb_i' = 0
    /\ UNCHANGED <<mainVars, sessionVars, unitVars, lost_in_use,
                   max_connections, initialized, generation, connections,
                   available_connections, getters, conn, lock, pc, held,
                   attempt, deadline_passed, last_result, sd_pc, sd_i, sd_raised>>

\* ------------------------------------------------ IBConnectionPool.shutdown
\* IBConnection.disconnect's assignments after the client's disconnect
\* (lines 111-114).
Disconnected(s) ==
    [s EXCEPT !.connected = FALSE, !.in_use = FALSE,
              !.connection_time = FALSE, !.last_heartbeat = "none"]

\* The loop of lines 209-210 from client_id j on, over session fields cn
\* and locks lk, up to the first disconnect() that suspends: on a lock a
\* connect() holds ("lock_wait"), or in the executor while the client
\* disconnects ("disconnecting").  A session whose client is not connected
\* is reset without suspending.  at = 0: the loop has ended.
RECURSIVE DisconnectLoop(_, _, _)
DisconnectLoop(j, cn, lk) ==
    IF j > Len(connections)
    THEN [cn |-> cn, at |-> 0, how |-> "returned"]
    ELSE LET o == connections[j] IN
         IF lk[o] # "free"
         THEN [cn |-> cn, at |-> j, how |-> "lock_wait"]
         ELSE IF cn[o].ib_client = "up"
         THEN [cn |-> cn, at |-> j, how |-> "disconnecting"]
         ELSE DisconnectLoop(j + 1, [cn EXCEPT ![o] = Disconnected(cn[o])], lk)

\* shutdown() from the disconnect loop at client_id j to its next
\* suspension or to its end, where `initialized` is cleared (line 212).
ShutdownFrom(j, cn, lk) ==
    LET r == DisconnectLoop(j, cn, lk) IN
    /\ conn' = r.cn
    /\ sd_pc' = r.how
    /\ sd_i' = r.at
    /\ lock' = IF r.how = "disconnecting"
               THEN [lk EXCEPT ![connections[r.at]] = "shutdown"]
               ELSE lk
    /\ initialized' = IF r.at = 0 THEN FALSE ELSE initialized

\* shutdown() is called (on an initialized pool): the heartbeat task is
\* cancelled and awaited (lines 201-206).
ShutdownCall ==
    /\ sd_pc \in {"idle", "returned"}
    /\ initialized
    /\ sd_raised' = FALSE
    /\ IF hb_pc \in {"sleep", "probe"}
       THEN /\ hb_pc' = "cancelled"
            /\ sd_pc' = "await_task"
            /\ UNCHANGED <<conn, lock, sd_i, initialized, hb_i>>
       ELSE /\ ShutdownFrom(1, conn, lock)
            /\ UNCHANGED <<hb_pc, hb_i>>
    /\ UNCHANGED <<mainVars, sessionVars, unitVars, lost_in_use,
                   max_connections, generation, connections,
                   available_connections, getters, pc, held, attempt,
                   deadline_passed, last_result>>

\* The awaited heartbeat task has ended; the disconnect loop starts.
ShutdownTaskDone ==
    /\ sd_pc = "await_task"
    /\ hb_pc = "done"
    /\ ShutdownFrom(1, conn, lock)
    /\ UNCHANGED <<mainVars, sessionVars, unitVars, lost_in_use,
                   max_connections, generation, connections,
                   available_connections, getters, pc, held, attempt,
                   deadline_passed, last_result, hb_pc, hb_i, sd_raised>>

\* disconnect() gets the lock a connect() held.
ShutdownLockAcquired ==
    /\ sd_pc = "lock_wait"
    /\ lock[connections[sd_i]] = "free"
    /\ ShutdownFrom(sd_i, conn, lock)
    /\ UNCHANGED <<mainVars, sessionVars, unitVars, lost_in_use,
                   max_connections, generation, connections,
                   available_connections, getters, pc, held, attempt,
                   deadline_passed, last_result, hb_pc, hb_i, sd_raised>>

\* How the client's disconnect in the executor can end (lines 105-121).
DisconnectOutcomes == {"ok", "raises"}

\* IBConnection.disconnect after the client's disconnect returned or raised
\* (lines 111-121): an exception is logged and skips the assignments.
AfterDisconnect(s, outcome) ==
    IF outcome = "ok"
    THEN Disconnected([s EXCEPT !.ib_client = "down"])
    ELSE s

\* The client's disconnect ends; the lock is released and the loop goes on.
DisconnectDone ==
    /\ sd_pc = "disconnecting"
    /\ LET o == connections[sd_i] IN
       \E outcome \in DisconnectOutcomes :
          /\ ShutdownFrom(sd_i + 1,
                          [conn EXCEPT ![o] = AfterDisconnect(conn[o], outcome)],
                          [lock EXCEPT ![o] = "free"])
          /\ sd_raised' = (sd_raised \/ outcome = "raises")
    /\ UNCHANGED <<mainVars, sessionVars, unitVars, lost_in_use,
                   max_connections, generation, connections,
                   available_connections, getters, pc, held, attempt,
                   deadline_passed, last_result, hb_pc, hb_i>>

\* ------------------------------------------------------------ environment
\* Sessions that exist.
Created == 1..(generation * max_connections)

\* The gateway drops a session's connection.
GatewayDrop(o) ==
    /\ conn[o].ib_client = "up"
    /\ conn' = [conn EXCEPT ![o].ib_client = "down"]
    /\ UNCHANGED <<mainVars, sessionVars, unitVars, lost_in_use,
                   max_connections, initialized, generation, connections,
                   available_connections, getters, lock, pc, held, attempt,
                   deadline_passed, last_result, hb_pc, hb_i, sd_pc, sd_i,
                   sd_raised>>

\* The same drop, with the history of drops during a lease kept.
GatewayDropRecorded(o) ==
    /\ conn[o].ib_client = "up"
    /\ conn' = [conn EXCEPT ![o].ib_client = "down"]
    /\ lost_in_use' = IF conn[o].in_use
                      THEN lost_in_use \cup {o}
                      ELSE lost_in_use
    /\ UNCHANGED <<mainVars, sessionVars, unitVars,
                   max_connections, initialized, generation, connections,
                   available_connections, getters, lock, pc, held, attempt,
                   deadline_passed, last_result, hb_pc, hb_i, sd_pc, sd_i,
                   sd_raised>>

\* Time: a session's last heartbeat becomes older than
\* 2 * heartbeat_timeout (line 159).
HeartbeatAges(o) ==
    /\ conn[o].last_heartbeat = "fresh"
    /\ conn' = [conn EXCEPT ![o].last_heartbeat = "stale"]
    /\ UNCHANGED <<mainVars, sessionVars, unitVars, lost_in_use,
                   max_connections, initialized, generation, connections,
                   available_connections, getters, lock, pc, held, attempt,
                   deadline_passed, last_result, hb_pc, hb_i, sd_pc, sd_i, sd_raised>>

\* The route handlers of main_enhanced.py around get_connection (lines
\* 320-325, 366-368, 450-452): the pool's ConnectionPoolError is caught by
\* `except Exception`, which answers 500 with a detail quoting the message.
PoolErrorResponse(result) ==
    [status |-> 500,
     detail |-> IF result = "pool_timeout"
                THEN "Failed to fetch data: Timeout waiting for available connection"
                ELSE "Failed to fetch data: Failed to establish connection"]

\* One lifetime of the service (main_enhanced.py's lifespan): the pool is
\* initialized at startup or by the first request, serves requests, and is
\* shut down at exit, after which no new request arrives.
Serving == sd_pc # "returned"

\* The application calls initialize (main_enhanced.py line 63).
Startup == Serving /\ Initialize

\* A request handler enters `async with connection_pool.get_connection()`.
Request(c) == Serving /\ GetConnection(c)

Next ==
    \/ Startup
    \/ \E c \in Callers : Request(c)
    \/ \E c \in Callers : Resume(c)
    \/ \E c \in Callers : LeaseDeadline(c)
    \/ \E c \in Callers : Timeout(c)
    \/ \E c \in Callers : ConnectDone(c)
    \/ \E c \in Callers : RetryConnect(c)
    \/ \E c \in Callers : LockAcquired(c)
    \/ \E c \in Callers : Release(c)
    \/ MonitorTick
    \/ ProbeDone
    \/ MonitorCancelled
    \/ ShutdownCall
    \/ ShutdownTaskDone
    \/ ShutdownLockAcquired
    \/ DisconnectDone
    \/ \E o \in Created : GatewayDrop(o)
    \/ \E o \in Created : HeartbeatAges(o)

Spec == Init /\ [][Next]_vars

\* The same service, with the drops during a lease recorded.
NextLost ==
    \/ Startup
    \/ \E c \in Callers : Request(c)
    \/ \E c \in Callers : Resume(c)
    \/ \E c \in Callers : LeaseDeadline(c)
    \/ \E c \in Callers : Timeout(c)
    \/ \E c \in Callers : ConnectDone(c)
    \/ \E c \in Callers : RetryConnect(c)
    \/ \E c \in Callers : LockAcquired(c)
    \/ \E c \in Callers : Release(c)
    \/ MonitorTick
    \/ ProbeDone
    \/ MonitorCancelled
    \/ ShutdownCall
    \/ ShutdownTaskDone
    \/ ShutdownLockAcquired
    \/ DisconnectDone
    \/ \E o \in Created : GatewayDropRecorded(o)
    \/ \E o \in Created : HeartbeatAges(o)

SpecLost == Init /\ [][NextLost]_vars

\* Several lifetimes in one process: the pool is initialized again after a
\* shutdown (initialize and get_connection both allow it, lines 178 and
\* 218), while requests of the earlier lifetime may still be running.
\* Bound: the request tasks of such a run.
MaxRestartCallers == 2

RestartRequest(c) == c <= MaxRestartCallers /\ GetConnection(c)

InitRestart ==
    /\ PoolInit({1})
    /\ MainIdle
    /\ ids_in_use = {}
    /\ SessionIdle
    /\ UnitIdle

NextRestart ==
    \/ Initialize
    \/ \E c \in Callers : RestartRequest(c)
    \/ \E c \in Callers : Resume(c)
    \/ \E c \in Callers : LeaseDeadline(c)
    \/ \E c \in Callers : Timeout(c)
    \/ \E c \in Callers : ConnectDone(c)
    \/ \E c \in Callers : RetryConnect(c)
    \/ \E c \in Callers : LockAcquired(c)
    \/ \E c \in Callers : Release(c)
    \/ MonitorTick
    \/ ProbeDone
    \/ MonitorCancelled
    \/ ShutdownCall
    \/ ShutdownTaskDone
    \/ ShutdownLockAcquired
    \/ DisconnectDone
    \/ \E o \in Created : GatewayDrop(o)
    \/ \E o \in Created : HeartbeatAges(o)

SpecRestart == InitRestart /\ [][NextRestart]_vars

\* ================================================================ main.py
\* get_ib_connection of main.py (lines 292-435): one global client, shared
\* by every route handler; the handlers call it synchronously, so calls do
\* not overlap.

\* Bound: calls of get_ib_connection in one run.
MaxCalls == 3

\* Line 313: base_id .. base_id + 5.  Line 314 shuffles a copy of the
\* tail (a slice is a new list), so the list keeps this order.
client_ids_to_try == [i \in 1..NumClientIds |-> IB_CLIENT_ID + i - 1]

Candidates == {client_ids_to_try[i] : i \in 1..NumClientIds}

\* The messages str(e) of a failed attempt, by the substrings the code
\* looks for (lower-cased).
ErrorMessages ==
    {"client id is already in use", "error 326", "peer closed",
     "connection verification failed", "timeout", "connection refused",
     "no route to host", "network is unreachable", "other"}

\* Line 360: the gateway rejected the client id as already in use.
IsInUseError(m) == m \in {"client id is already in use", "error 326"}

\* Line 369 ("peer closed"; the verification message of line 354 does
\* not contain "connection established but").
IsConnectionIssue(m) == m = "peer closed"

\* Lines 393-402: the remediation hint, by the first test that matches.
Hint(m) ==
    CASE m = "timeout" -> "hint_timeout"
      [] m = "connection refused" -> "hint_refused"
      [] m \in {"network is unreachable", "no route to host"} -> "hint_unreachable"
      [] m = "client id is already in use" -> "hint_all_ids_in_use"
      [] OTHER -> "hint_failed"

\* How an attempt with client id x can end: the gateway rejects an id
\* another program holds, and reports an id as in use only then.
AttemptOutcomes(x) ==
    IF x \in ids_in_use
    THEN ErrorMessages
    ELSE {"connected"} \cup {m \in ErrorMessages : ~IsInUseError(m)}

\* The ids known as rejected when an attempt is made: the history, emptied
\* once every candidate has been rejected.
Excluded == IF rejected_ids = Candidates THEN {} ELSE rejected_ids

\* get_ib_connection is called (lines 297-315): a connected client is
\* returned as it is; otherwise the old client is dropped and the loop
\* over client_ids_to_try starts from its first entry.
GetIbConnection ==
    /\ call = "idle"
    /\ calls < MaxCalls
    /\ calls' = calls + 1
    /\ IF ib_client = "up"
       THEN /\ response' = Returned("client")
            /\ UNCHANGED <<ib_client, call, idx, last_error>>
       ELSE /\ ib_client' = "none"
            /\ call' = "loop"
            /\ idx' = 1
            /\ last_error' = "none"
            /\ response' = Returned("none")
    /\ UNCHANGED <<poolVars, sessionVars, unitVars, ids_in_use, rejected_ids>>

\* The end of the call after the loop (lines 389-412): 503 with the hint.
ServiceUnavailable(m) == [status |-> 503, detail |-> Hint(m)]

\* One iteration of the loop (lines 317-387): connect with the next client
\* id, wait, verify.  Success returns the client; an in-use or peer-closed
\* error goes on to the next id; any other error leaves the loop.
TryClientId ==
    /\ call = "loop"
    /\ LET x == client_ids_to_try[idx] IN
       \E outcome \in AttemptOutcomes(x) :
          /\ rejected_ids' = IF IsInUseError(outcome)
                             THEN Excluded \cup {x}
                             ELSE Excluded
          /\ IF outcome = "connected"
             THEN /\ ib_client' = "up"
                  /\ response' = Returned("client")
                  /\ call' = "idle"
                  /\ idx' = 0
                  /\ UNCHANGED last_error
             ELSE /\ ib_client' = "none"
                  /\ last_error' = outcome
                  /\ IF (IsInUseError(outcome) \/ IsConnectionIssue(outcome))
                        /\ idx < NumClientIds
                     THEN /\ idx' = idx + 1
                          /\ UNCHANGED <<call, response>>
                     ELSE /\ response' = ServiceUnavailable(outcome)
                          /\ call' = "idle"
                          /\ idx' = 0
    /\ UNCHANGED <<poolVars, sessionVars, unitVars, calls, ids_in_use>>

\* The connection of the global client is lost.
ConnectionLost ==
    /\ ib_client = "up"
    /\ ib_client' = "down"
    /\ UNCHANGED <<poolVars, sessionVars, unitVars, call, idx, last_error,
                   response, calls,
                   ids_in_use, rejected_ids>>

\* Another program connects to the gateway with client id x, or leaves.
OtherProgram(x) ==
    /\ ids_in_use' = IF x \in ids_in_use
                     THEN ids_in_use \ {x}
                     ELSE ids_in_use \cup {x}
    /\ UNCHANGED <<poolVars, sessionVars, unitVars, ib_client, call, idx,
                   last_error, response, calls, rejected_ids>>

InitMain ==
    /\ PoolInit({1})
    /\ MainIdle
    /\ ids_in_use \in SUBSET Candidates
    /\ SessionIdle
    /\ UnitIdle

NextMain ==
    \/ GetIbConnection
    \/ TryClientId
    \/ ConnectionLost
    \/ \E x \in Candidates : OtherProgram(x)

SpecMain == InitMain /\ [][NextMain]_vars

\* ==================================================== one session in time
\* One idle IBConnection of an initialized pool with the clock made
\* explicit: connect(), the monitor's heartbeat() every heartbeat_interval
\* seconds, disconnect() and is_healthy().

\* config.heartbeat_interval and config.heartbeat_timeout (defaults).
heartbeat_interval == 30
heartbeat_timeout == 10

\* Bounds: the clock's step and its end, in seconds.
TimeStep == 10
MaxTime == 90

\* IBConnection.is_healthy at time t (lines 151-161).
is_healthy_at(s, t) ==
    IF ~s.connected
    THEN FALSE
    ELSE IF s.last_heartbeat # <<>>
    THEN t - s.last_heartbeat[1] < heartbeat_timeout * 2
    ELSE FALSE

\* How connect() can end for the session followed in time.
SessionConnectOutcomes == {"connected", "failed"}

\* get_connection finds the session unhealthy and connect() runs (lines
\* 41-90): nothing changes when the client reports connected; a successful
\* connect stamps connection_time and last_heartbeat, a failed one clears
\* `connected`.
SessionConnect ==
    /\ ~is_healthy_at(session, now)
    /\ session.ib_client # "up"
    /\ \E outcome \in SessionConnectOutcomes :
          IF outcome = "connected"
          THEN /\ session' = [connected |-> TRUE, ib_client |-> "up",
                              last_heartbeat |-> <<now>>,
                              connection_time |-> <<now>>]
               /\ heartbeat_recorded' = FALSE
          ELSE /\ session' = [session EXCEPT !.connected = FALSE,
                                             !.ib_client = "down"]
               /\ UNCHANGED heartbeat_recorded
    /\ UNCHANGED <<poolVars, mainVars, unitVars, now, monitor_at>>

\* The monitor's sleep ends (lines 279-284): a connected session is probed;
\* an answering client stamps last_heartbeat, anything else clears
\* `connected`.  The monitor then sleeps heartbeat_interval seconds.
SessionHeartbeat ==
    /\ now = monitor_at
    /\ monitor_at' = now + heartbeat_interval
    /\ IF session.connected /\ session.ib_client # "none"
       THEN \E outcome \in ProbeOutcomes :
               IF outcome = "answer" /\ session.ib_client = "up"
               THEN /\ session' = [session EXCEPT !.last_heartbeat = <<now>>]
                    /\ heartbeat_recorded' = TRUE
               ELSE /\ session' = [session EXCEPT !.connected = FALSE]
                    /\ UNCHANGED heartbeat_recorded
       ELSE UNCHANGED <<session, heartbeat_recorded>>
    /\ UNCHANGED <<poolVars, mainVars, unitVars, now>>

\* disconnect() (lines 101-121) on the session followed in time.
SessionDisconnect ==
    /\ session.ib_client # "none"
    /\ \E outcome \in DisconnectOutcomes :
          IF session.ib_client = "up" /\ outcome = "raises"
          THEN UNCHANGED <<session, heartbeat_recorded>>
          ELSE /\ session' = [connected |-> FALSE, ib_client |-> "down",
                              last_heartbeat |-> <<>>,
                              connection_time |-> <<>>]
               /\ heartbeat_recorded' = FALSE
    /\ UNCHANGED <<poolVars, mainVars, unitVars, now, monitor_at>>

\* The gateway drops the session's connection.
SessionDrop ==
    /\ session.ib_client = "up"
    /\ session' = [session EXCEPT !.ib_client = "down"]
    /\ UNCHANGED <<poolVars, mainVars, unitVars, now, monitor_at,
                   heartbeat_recorded>>

\* Time passes, up to the moment the monitor wakes.
Tick ==
    /\ now < monitor_at
    /\ now + TimeStep <= MaxTime
    /\ now' = now + TimeStep
    /\ UNCHANGED <<poolVars, mainVars, unitVars, session, monitor_at,
                   heartbeat_recorded>>

\* The pool has just been initialized: the monitor starts its first sleep.
InitSession ==
    /\ PoolInit({1})
    /\ MainIdle
    /\ ids_in_use = {}
    /\ UnitIdle
    /\ now = 0
    /\ session = NewSession
    /\ monitor_at = heartbeat_interval
    /\ heartbeat_recorded = FALSE

NextSession ==
    \/ SessionConnect
    \/ SessionHeartbeat
    \/ SessionDisconnect
    \/ SessionDrop
    \/ Tick

SpecSession == InitSession /\ [][NextSession]_vars

\* ================================================== _ensure_connected alone
\* One session's _ensure_connected (lines 246-271) with the reason of each
\* failed connect() kept: connect() answers False for every reason (lines
\* 78-90), _connect_with_retry turns False into ConnectionPoolError, and
\* tenacity sleeps wait_exponential before it calls connect() again on the
\* same session.

\* Bound: calls of _ensure_connected in one run.
MaxEnsureCalls == 2

\* config.connection_retry_delay and connection_retry_max_delay, in seconds.
connection_retry_delay == 1
connection_retry_max_delay == 60

RECURSIVE Pow2(_)
Pow2(n) == IF n = 0 THEN 1 ELSE 2 * Pow2(n - 1)

Min(a, b) == IF a <= b THEN a ELSE b

\* tenacity's wait_exponential(multiplier, max) after attempt n:
\* min(max, multiplier * 2^(n-1)).
WaitExponential(n) ==
    Min(connection_retry_max_delay, connection_retry_delay * Pow2(n - 1))

\* The reasons a connect() can fail for, as the gateway interface tells
\* them apart.
ErrorClasses == {"in_use", "refused", "timeout", "unreachable", "unknown"}

\* How connect() with client id x can end: the gateway rejects an id that
\* another program holds.
EnsureOutcomes(x) ==
    IF x \in ids_in_use
    THEN ErrorClasses
    ELSE {"connected"} \cup (ErrorClasses \ {"in_use"})

\* _ensure_connected is called (lines 248-249, 268): a healthy session
\* returns True at once, otherwise the first connect() starts.
EnsureConnected ==
    /\ ec_pc = "idle"
    /\ ec_calls < MaxEnsureCalls
    /\ ec_calls' = ec_calls + 1
    /\ IF ec_healthy
       THEN UNCHANGED <<ec_pc, ec_attempt, ec_error, ec_delay>>
       ELSE /\ ec_pc' = "connecting"
            /\ ec_attempt' = 1
            /\ ec_error' = "none"
            /\ ec_delay' = 0
    /\ UNCHANGED <<poolVars, mainVars, sessionVars, cacheVars, candidateVars,
                   simpleVars,
                   ec_client_id, ec_healthy>>

\* connect() returns (lines 262-265): True ends the call; False raises
\* ConnectionPoolError, which tenacity retries whatever the reason was,
\* until stop_after_attempt says stop (then line 271 returns False).
EnsureConnectDone ==
    /\ ec_pc = "connecting"
    /\ \E outcome \in EnsureOutcomes(ec_client_id) :
          IF outcome = "connected"
          THEN /\ ec_healthy' = TRUE
               /\ ec_pc' = "idle"
               /\ UNCHANGED ec_error
          ELSE /\ ec_healthy' = FALSE
               /\ ec_error' = outcome
               /\ ec_pc' = IF StopAfterAttempt(ec_attempt)
                           THEN "idle"
                           ELSE "waiting"
    /\ UNCHANGED <<poolVars, mainVars, sessionVars, cacheVars, candidateVars,
                   simpleVars,
                   ec_client_id, ec_attempt,
                   ec_delay, ec_calls>>

\* tenacity's sleep ends: connect() is called again on the same session.
EnsureRetry ==
    /\ ec_pc = "waiting"
    /\ ec_delay' = ec_delay + WaitExponential(ec_attempt)
    /\ ec_attempt' = ec_attempt + 1
    /\ ec_pc' = "connecting"
    /\ UNCHANGED <<poolVars, mainVars, sessionVars, cacheVars, candidateVars,
                   simpleVars,
                   ec_client_id, ec_healthy,
                   ec_error, ec_calls>>

\* The session's connection is lost, or its heartbeat goes stale.
EnsureUnhealthy ==
    /\ ec_pc = "idle"
    /\ ec_healthy
    /\ ec_healthy' = FALSE
    /\ UNCHANGED <<poolVars, mainVars, sessionVars, cacheVars, candidateVars,
                   simpleVars,
                   ec_pc, ec_client_id,
                   ec_attempt, ec_error, ec_delay, ec_calls>>

\* One session of the pool, with any of the pool's client ids (line 186).
InitEnsure ==
    /\ PoolInit({MaxConnections})
    /\ MainIdle
    /\ ids_in_use \in SUBSET Candidates
    /\ SessionIdle
    /\ CacheIdle
    /\ CandidatesIdle
    /\ SimpleIdle
    /\ ec_pc = "idle"
    /\ ec_client_id \in 1..MaxConnections
    /\ ec_healthy = FALSE
    /\ ec_attempt = 0
    /\ ec_error = "none"
    /\ ec_delay = 0
    /\ ec_calls = 0

NextEnsure ==
    \/ EnsureConnected
    \/ EnsureConnectDone
    \/ EnsureRetry
    \/ EnsureUnhealthy
    \/ \E x \in Candidates : OtherProgram(x)

SpecEnsure == InitEnsure /\ [][NextEnsure]_vars


\* ======================================================== DataCache alone
\* DataCache of data_processor.py (lines 27-96): a dict from the md5 hex
\* digest of "symbol:timeframe:period" to the cached entry.  Text is a
\* sequence of one-character strings, so that `in` on strings is a test on
\* sequences.

\* The requests that are cached: two tickers in letters, one in digits.
Symbols == {<<"A", "A", "P", "L">>, <<"M", "S", "F", "T">>, <<"5">>}
Timeframes == {<<"1", "h">>, <<"1", "d">>}
Periods == {<<"1", "d">>}

\* None, as an argument or a result.
None == <<>>

\* hashlib.md5(key_string.encode()).hexdigest() for the key strings above.
Md5Hex(key_string) ==
    CASE key_string = <<"A", "A", "P", "L", ":", "1", "h", ":", "1", "d">> ->
           \* AAPL:1h:1d
           <<"1", "a", "1", "e", "4", "f", "7", "0", "8", "1", "f", "8",
             "5", "6", "1", "d", "1", "3", "9", "c", "e", "f", "e", "a",
             "6", "0", "1", "9", "4", "e", "f", "9">>
      [] key_string = <<"A", "A", "P", "L", ":", "1", "d", ":", "1", "d">> ->
           \* AAPL:1d:1d
           <<"6", "6", "9", "7", "1", "b", "5", "e", "b", "7", "7", "2",
             "7", "4", "1", "2", "2", "a", "c", "f", "9", "b", "3", "d",
             "c", "8", "6", "f", "5", "5", "6", "b">>
      [] key_string = <<"M", "S", "F", "T", ":", "1", "h", ":", "1", "d">> ->
           \* MSFT:1h:1d
           <<"6", "4", "6", "2", "f", "2", "c", "4", "1", "6", "c", "d",
             "1", "d", "f", "b", "5", "9", "5", "5", "2", "5", "4", "6",
             "d", "e", "2", "c", "6", "8", "4", "2">>
      [] key_string = <<"M", "S", "F", "T", ":", "1", "d", ":", "1", "d">> ->
           \* MSFT:1d:1d
           <<"3", "a", "3", "2", "b", "1", "2", "1", "2", "7", "3", "7",
             "7", "b", "1", "e", "1", "a", "a", "5", "a", "c", "6", "a",
             "3", "1", "6", "7", "4", "a", "3", "6">>
      [] key_string = <<"5", ":", "1", "h", ":", "1", "d">> ->
           \* 5:1h:1d
           <<"d", "8", "8", "c", "6", "3", "d", "5", "e", "b", "3", "b",
             "5", "d", "d", "5", "2", "1", "2", "5", "a", "9", "4", "e",
             "b", "d", "f", "8", "b", "6", "8", "f">>
      [] key_string = <<"5", ":", "1", "d", ":", "1", "d">> ->
           \* 5:1d:1d
           <<"6", "e", "e", "a", "3", "9", "7", "8", "2", "b", "7", "9",
             "7", "2", "6", "7", "5", "3", "1", "1", "8", "e", "7", "0",
             "8", "6", "8", "2", "4", "8", "b", "6">>

\* _generate_key (lines 34-37).
GenerateKey(symbol, timeframe, period) ==
    Md5Hex(symbol \o <<":">> \o timeframe \o <<":">> \o period)

\* Python's `sub in text` on strings.
Contains(sub, text) ==
    \E i \in 0..(Len(text) - Len(sub)) :
        SubSeq(text, i + 1, i + Len(sub)) = sub

\* What get() returns (lines 41-54): the data of an entry that has not
\* expired, else None.
GetResult(c, symbol, timeframe, period) ==
    LET key == GenerateKey(symbol, timeframe, period) IN
    IF key \in DOMAIN c /\ ~c[key].expired THEN c[key].data ELSE None

\* The entries left by dropping the keys in gone.
Remove(c, gone) == [k \in DOMAIN c \ gone |-> c[k]]

\* get (lines 39-54): an expired entry is deleted on the way.
CacheGet(symbol, timeframe, period) ==
    /\ LET key == GenerateKey(symbol, timeframe, period) IN
       cache' = IF key \in DOMAIN cache /\ cache[key].expired
                THEN Remove(cache, {key})
                ELSE cache
    /\ cache_op' = [op |-> "get", symbol |-> symbol, timeframe |-> timeframe,
                    period |-> period,
                    result |-> GetResult(cache, symbol, timeframe, period)]
    /\ UNCHANGED <<poolVars, mainVars, sessionVars, ensureVars, candidateVars,
                   simpleVars>>

\* set (lines 56-68): the entry is stored under the key, not expired.
CacheSet(symbol, timeframe, period) ==
    /\ LET key == GenerateKey(symbol, timeframe, period) IN
       cache' = [k \in DOMAIN cache \cup {key} |->
                    IF k = key
                    THEN [data |-> <<symbol, timeframe, period>>,
                          expired |-> FALSE]
                    ELSE cache[k]]
    /\ cache_op' = [op |-> "set", symbol |-> symbol, timeframe |-> timeframe,
                    period |-> period, result |-> None]
    /\ UNCHANGED <<poolVars, mainVars, sessionVars, ensureVars, candidateVars,
                   simpleVars>>

\* The keys invalidate collects in to_remove (lines 72-78).
ToRemove(c, symbol, timeframe, period) ==
    {key \in DOMAIN c :
        /\ Contains(symbol, key)
        /\ timeframe = None \/ Contains(timeframe, key)
        /\ period = None \/ Contains(period, key)}

\* invalidate (lines 70-83).
CacheInvalidate(symbol, timeframe, period) ==
    /\ cache' = Remove(cache, ToRemove(cache, symbol, timeframe, period))
    /\ cache_op' = [op |-> "invalidate", symbol |-> symbol,
                    timeframe |-> timeframe, period |-> period,
                    result |-> None]
    /\ UNCHANGED <<poolVars, mainVars, sessionVars, ensureVars, candidateVars,
                   simpleVars>>

\* config.data_cache_ttl seconds have passed since the entry was stored.
CacheExpire(key) ==
    /\ key \in DOMAIN cache
    /\ ~cache[key].expired
    /\ cache' = [cache EXCEPT ![key].expired = TRUE]
    /\ cache_op' = [op |-> "expire", symbol |-> None, timeframe |-> None,
                    period |-> None, result |-> None]
    /\ UNCHANGED <<poolVars, mainVars, sessionVars, ensureVars, candidateVars,
                   simpleVars>>

\* cleanup_expired (lines 85-96).
CleanupExpired ==
    /\ cache' = Remove(cache, {k \in DOMAIN cache : cache[k].expired})
    /\ cache_op' = [op |-> "cleanup", symbol |-> None, timeframe |-> None,
                    period |-> None, result |-> None]
    /\ UNCHANGED <<poolVars, mainVars, sessionVars, ensureVars, candidateVars,
                   simpleVars>>

InitCache ==
    /\ PoolInit({1})
    /\ MainIdle
    /\ ids_in_use = {}
    /\ SessionIdle
    /\ UnitIdle

NextCache ==
    \/ \E s \in Symbols, t \in Timeframes, p \in Periods :
          \/ CacheGet(s, t, p)
          \/ CacheSet(s, t, p)
    \/ \E s \in Symbols, t \in Timeframes \cup {None},
          p \in Periods \cup {None} : CacheInvalidate(s, t, p)
    \/ \E key \in DOMAIN cache : CacheExpire(key)
    \/ CleanupExpired

SpecCache == InitCache /\ [][NextCache]_vars



\* ============================================ client_ids_to_try alone
\* Lines 312-314 of main.py with random.shuffle made explicit: its argument
\* client_ids_to_try[1:] is a new list, which it permutes in place and
\* which is then dropped.

\* Bound: the largest IB_CLIENT_ID the environment sets.
MaxBaseId == 2

\* The orders random.shuffle can leave a list in.
Permutations(q) ==
    {[i \in 1..Len(q) |-> q[f[i]]] :
        f \in {g \in [1..Len(q) -> 1..Len(q)] :
                  \A a, b \in 1..Len(q) : a # b => g[a] # g[b]}}

\* Lines 312-314: the list is built, a copy of its tail is shuffled.
BuildCandidates ==
    /\ tried = <<>>
    /\ LET ids == [i \in 1..NumClientIds |-> base_id + i - 1] IN
       /\ shuffled' \in Permutations(Tail(ids))
       /\ tried' = ids
    /\ UNCHANGED <<poolVars, mainVars, sessionVars, ensureVars, cacheVars,
                   simpleVars, base_id>>

InitCandidates ==
    /\ PoolInit({1})
    /\ MainIdle
    /\ ids_in_use = {}
    /\ SessionIdle
    /\ EnsureIdle
    /\ CacheIdle
    /\ SimpleIdle
    /\ base_id \in IB_CLIENT_ID..MaxBaseId
    /\ shuffled = <<>>
    /\ tried = <<>>

NextCandidates == BuildCandidates

SpecCandidates == InitCandidates /\ [][NextCandidates]_vars



\* ================================================ connect_to_ib_sync alone
\* connect_to_ib_sync of main_simple.py (lines 42-96; main_fallback.py has
\* the same text at lines 41-95), called at startup and by POST /connect.

\* Bound: calls of connect_to_ib_sync in one run.
MaxSimpleCalls == 3

\* The length of client_ids_to_try (line 46): ids 1 .. 5.
NumSimpleIds == 5

\* How one iteration's connect can end: the client is connected, connect
\* returns with the client not connected, ConnectionRefusedError, or any
\* other exception.
SimpleOutcomes == {"connected", "not_connected", "refused", "exception"}

\* connect_to_ib_sync is called: the loop starts with its first id.
ConnectToIbSync ==
    /\ cs_attempt = 0
    /\ cs_calls < MaxSimpleCalls
    /\ cs_calls' = cs_calls + 1
    /\ cs_attempt' = 1
    /\ cs_result' = "none"
    /\ UNCHANGED <<poolVars, mainVars, sessionVars, ensureVars, cacheVars,
                   candidateVars, cs_client, cs_status>>

\* One iteration of the loop (lines 48-94).
SimpleAttempt ==
    /\ cs_attempt >= 1
    /\ \E outcome \in SimpleOutcomes :
          CASE outcome = "connected" ->
                 /\ cs_client' = "up"
                 /\ cs_status' = [connected |-> TRUE,
                                  client_id |-> cs_attempt,
                                  last_error |-> "none"]
                 /\ cs_result' = "True"
                 /\ cs_attempt' = 0
            [] outcome = "not_connected" ->
                 /\ cs_client' = "down"
                 /\ UNCHANGED cs_status
                 /\ IF cs_attempt < NumSimpleIds
                    THEN /\ cs_attempt' = cs_attempt + 1
                         /\ UNCHANGED cs_result
                    ELSE /\ cs_attempt' = 0
                         /\ cs_result' = "False"
            [] outcome = "refused" ->
                 /\ cs_client' = "down"
                 /\ cs_status' = [cs_status EXCEPT !.connected = FALSE,
                                                   !.last_error = "refused"]
                 /\ cs_result' = "False"
                 /\ cs_attempt' = 0
            [] outcome = "exception" ->
                 IF cs_attempt < NumSimpleIds
                 THEN /\ cs_client' = "down"
                      /\ cs_attempt' = cs_attempt + 1
                      /\ UNCHANGED <<cs_status, cs_result>>
                 ELSE /\ cs_client' = "none"
                      /\ cs_status' = [cs_status EXCEPT
                                          !.connected = FALSE,
                                          !.last_error = "attempt failed"]
                      /\ cs_result' = "False"
                      /\ cs_attempt' = 0
    /\ UNCHANGED <<poolVars, mainVars, sessionVars, ensureVars, cacheVars,
                   candidateVars, cs_calls>>

\* The gateway drops the client's connection; nothing updates
\* connection_status.
SimpleConnectionLost ==
    /\ cs_attempt = 0
    /\ cs_client = "up"
    /\ cs_client' = "down"
    /\ UNCHANGED <<poolVars, mainVars, sessionVars, ensureVars, cacheVars,
                   candidateVars, cs_attempt, cs_status, cs_result, cs_calls>>

InitSimple ==
    /\ PoolInit({1})
    /\ MainIdle
    /\ ids_in_use = {}
    /\ SessionIdle
    /\ UnitIdle

NextSimple ==
    \/ ConnectToIbSync
    \/ SimpleAttempt
    \/ SimpleConnectionLost

SpecSimple == InitSimple /\ [][NextSimple]_vars


\* ------------------------------------------------------------ properties
InUse == {o \in Created : conn[o].in_use}
Count(q, o) == Cardinality({i \in 1..Len(q) : q[i] = o})

\* C1: once the pool is initialized, and as long as only acquires and
\* releases run (no shutdown), the number of queued sessions plus the
\* number of sessions with in_use set equals max_connections in every
\* state, also while a dequeued session is being reconnected.
C1_CapacityInvariant ==
    (generation > 0 /\ sd_pc = "idle") =>
        Len(available_connections) + Cardinality(InUse) = max_connections

\* C2: no two callers hold the same IBConnection object, and a session a
\* caller holds is not in the queue for another caller to receive.
C2_Exclusivity ==
    \A c \in Callers :
        held[c] # 0 =>
            /\ \A d \in Callers : d # c => held[d] # held[c]
            /\ Count(available_connections, held[c]) = 0

\* C2 witness: two callers use two different sessions at the same time.
C2_Witness ==
    \E c, d \in Callers :
        /\ c # d
        /\ pc[c] = "using" /\ pc[d] = "using"
        /\ held[c] # 0 /\ held[d] # 0

\* C3: whenever the monitor starts a probe (calls heartbeat()), the
\* session it probes does not have in_use set at that moment.
C3_NoProbeOfLeased ==
    [][(hb_pc' = "probe" /\ (hb_pc # "probe" \/ hb_i' # hb_i))
          => ~conn'[connections'[hb_i']].in_use]_vars

\* C3 witness: the monitor probes a session after passing over one that
\* is in use.
C3_Witness ==
    /\ hb_pc = "probe"
    /\ \E j \in 1..Len(connections) :
          j < hb_i /\ conn[connections[j]].in_use /\ conn[connections[j]].connected

\* a waits for a session ahead of b: a's future was resolved while b still
\* waits, or a is ahead of b among the getters.
WaitsBefore(a, b) ==
    /\ a # b
    /\ \/ pc[a] = "woken" /\ pc[b] = "waiting"
       \/ \E i, j \in 1..Len(getters) :
              i < j /\ getters[i] = a /\ getters[j] = b

\* C4: with capacity 1, callers waiting for the session are granted it in
\* the order in which they started to wait: no step puts a caller that
\* waited ahead of another behind it.
C4_FifoOrder ==
    [][\A a, b \in Callers :
          (max_connections = 1 /\ WaitsBefore(a, b)) => ~WaitsBefore(b, a)']_vars

\* C5: every step that ends a caller's lease, however the caller's block
\* ended, appends the session to the tail of the queue, where it then is
\* exactly once, and clears its in_use flag.
C5_ReleasePutsBack ==
    [][\A c \in Callers :
          (pc[c] = "using" /\ pc'[c] # "using") =>
              /\ available_connections' = Append(available_connections, held[c])
              /\ Count(available_connections', held[c]) = 1
              /\ ~conn'[held[c]].in_use]_vars

\* C5 witness: a lease whose block raised has ended, and the session is at
\* the tail of the queue with in_use cleared.
C5_Witness ==
    /\ last_result = "error"
    /\ available_connections # <<>>
    /\ ~conn[available_connections[Len(available_connections)]].in_use
    /\ \A c \in Callers : pc[c] = "idle"

\* C6: a get_connection whose reconnect of the dequeued session fails ends
\* with the connect-failed error, with the session appended to the tail of
\* the queue; and a caller that is reconnecting never switches to another
\* session.
C6_ConnectFailed ==
    [][\A c \in Callers :
          pc[c] \in Reconnecting =>
              /\ held'[c] \in {held[c], 0}
              /\ pc'[c] = "idle" =>
                     /\ last_result' = "connect_failed"
                     /\ available_connections' =
                            Append(available_connections, held[c])
                     /\ ~conn'[held[c]].in_use]_vars

\* C6 witness: capacity 2, both sessions never connected; one acquire has
\* failed with connect-failed while the other, concurrent one is at its
\* last attempt.
C6_Witness ==
    /\ max_connections = 2
    /\ last_result = "connect_failed"
    /\ \A o \in Created : conn[o].ib_client # "up" /\ ~conn[o].connected
    /\ \E c \in Callers :
          pc[c] = "connecting" /\ attempt[c] = connection_retry_attempts
    /\ Len(available_connections) = 1

\* C7: an acquire returns no later than its lease timeout: no caller is
\* still inside get_connection, reconnecting, once the 30 s have passed.
C7_HonorsLeaseTimeout ==
    \A c \in Callers : pc[c] \in Reconnecting => ~deadline_passed[c]

\* C8: one reconnect makes at most connection_retry_attempts calls of the
\* session's connect().
C8_RetryBound ==
    \A c \in Callers : attempt[c] <= connection_retry_attempts

\* C8 witness: a reconnect used up its attempts and reported failure, for
\* a session whose every connect failed.
C8_Witness ==
    /\ last_result = "connect_failed"
    /\ \A c \in Callers : pc[c] = "idle"
    /\ \A o \in Created : conn[o].ib_client = "down"

\* C9: initialize on an initialized pool changes neither the sessions map,
\* the queue nor the heartbeat task, and at any time one set of
\* max_connections sessions and one monitor task have been created.
C9_InitializeIdempotent ==
    /\ [](initialized =>
            /\ generation = 1
            /\ connections = SessionsOf(1)
            /\ hb_pc # "none")
    /\ [][(initialized /\ Initialize) =>
            UNCHANGED <<connections, available_connections, getters, conn,
                        generation, hb_pc, hb_i, initialized>>]_vars

\* C9 witness: initialize was called after a session had been connected
\* and released, on a pool that was never shut down.
C9_Witness ==
    /\ last_result = "initialize"
    /\ initialized /\ sd_pc = "idle"
    /\ \E o \in Range(available_connections) : conn[o].connected

\* C10: when shutdown returns, the heartbeat task has ended, every session
\* of the pool has connected = False and initialized is False; stated for
\* the shutdowns in which no client's disconnect raised.
C10_ShutdownPostcondition ==
    [][(sd_pc # "returned" /\ sd_pc' = "returned" /\ ~sd_raised') =>
          /\ hb_pc' \in {"none", "done"}
          /\ ~initialized'
          /\ \A i \in 1..Len(connections') :
                 ~conn'[connections'[i]].connected]_vars

\* C11: once the gateway has rejected a client id as already in use, no
\* later connection attempt of the process uses that id, until every
\* candidate id has been rejected.
C11_AvoidsRejectedIds ==
    [][(call = "loop" /\ idx' # idx) =>
          client_ids_to_try[idx] \notin Excluded]_vars

\* The remediation hints of the HTTP layer.
Hints ==
    {"hint_timeout", "hint_refused", "hint_unreachable", "hint_all_ids_in_use"}

\* C12: a request that fails because the pool gave no session in time or
\* because the reconnect failed is answered with a 503 whose detail is the
\* remediation hint, and its handler attempts no connection of its own.
C12_ServiceUnavailable ==
    \A c \in Callers :
        (pc[c] = "idle" /\ last_result \in {"pool_timeout", "connect_failed"}) =>
            /\ PoolErrorResponse(last_result).status = 503
            /\ PoolErrorResponse(last_result).detail \in Hints
            /\ held[c] = 0 /\ attempt[c] = 0

\* C13: no reachable state has a heartbeat probe in flight on a session
\* that a caller is using.
C13_NoProbeWhileLeased ==
    hb_pc = "probe" => ~conn[connections[hb_i]].in_use

\* C14: every session the monitor starts to probe is in the idle queue at
\* that moment; a session that an acquire has dequeued and is reconnecting
\* is never probed.
C14_ProbesOnlyQueued ==
    [][(hb_pc' = "probe" /\ (hb_pc # "probe" \/ hb_i' # hb_i)) =>
          /\ connections'[hb_i'] \in Range(available_connections')
          /\ \A c \in Callers : held'[c] # connections'[hb_i']]_vars

\* C15: in every reachable state a session with in_use set has connected
\* set.
C15_LeasedIsConnected ==
    \A o \in Created : conn[o].in_use => conn[o].connected

\* C16: over any sequence of initialize, acquire, release and shutdown,
\* no IBConnection object is in available_connections more than once.
C16_NoDuplicateInQueue ==
    \A o \in Objs : Count(available_connections, o) <= 1

\* C16 witness: the pool was shut down and initialized again while a
\* request of the first lifetime held its session; that session was then
\* released and sits in the queue behind the new one.
C16_Witness ==
    /\ generation = 2
    /\ last_result \in {"ok", "error"}
    /\ \E i, j \in 1..Len(available_connections) :
          /\ i < j
          /\ available_connections[i] \in Range(SessionsOf(2))
          /\ available_connections[j] \in Range(SessionsOf(1))

\* C17: a probe that fails marks the session not connected, the monitor
\* keeps running, and the monitor reconnects nothing: the session's client,
\* lock and place in the queue are untouched, and a session's client
\* becomes connected only in a step of the caller that dequeued it.
C17_FailedProbe ==
    [][/\ (hb_pc = "probe" /\ (hb_pc' # hb_pc \/ hb_i' # hb_i)
                            /\ sd_pc' = sd_pc) =>
            LET o == connections[hb_i] IN
            /\ hb_pc' \in {"probe", "sleep"}
            /\ conn[o].ib_client # "up" => ~conn'[o].connected
            /\ \/ ~conn'[o].connected
               \/ conn'[o].connected /\ conn'[o].last_heartbeat = "fresh"
            /\ conn'[o].ib_client = conn[o].ib_client
            /\ UNCHANGED <<lock, pc, held, attempt, available_connections,
                           getters, last_result>>
       /\ \A o \in Objs :
             (conn[o].ib_client # "up" /\ conn'[o].ib_client = "up") =>
                 \E c \in Callers : held[c] = o /\ pc[c] = "connecting"]_vars

\* C17 witness: capacity 1; the released session was marked not connected
\* by a failed probe, the monitor sleeps again, and a later get_connection
\* is reconnecting the session.
C17_Witness ==
    /\ max_connections = 1 /\ sd_pc = "idle"
    /\ last_result = "ok"
    /\ hb_pc = "sleep"
    /\ \E c \in Callers :
          /\ pc[c] = "connecting" /\ attempt[c] = 1
          /\ ~conn[held[c]].connected
          /\ conn[held[c]].connection_time

\* C18: when disconnect() returns, the session has connected = False and
\* connection_time and last_heartbeat cleared, also when the client's
\* disconnect call raised.
C18_DisconnectResets ==
    [][(sd_pc = "disconnecting" /\ (sd_pc' # sd_pc \/ sd_i' # sd_i)) =>
          LET o == connections[sd_i] IN
          /\ ~conn'[o].connected
          /\ ~conn'[o].connection_time
          /\ conn'[o].last_heartbeat = "none"]_vars

\* C19: a session that is connected and for which no heartbeat has been
\* recorded yet is reported healthy.
C19_HealthyBeforeFirstHeartbeat ==
    (session.connected /\ ~heartbeat_recorded) => is_healthy_at(session, now)

\* C20: a session whose gateway connection dropped during a lease and that
\* was then released is handed to a caller again only at the end of a real
\* connect call, with its client connected.
C20_ReconnectsLostSession ==
    [][\A c \in Callers :
          (pc[c] # "using" /\ pc'[c] = "using" /\ held'[c] \in lost_in_use) =>
              /\ pc[c] = "connecting"
              /\ conn'[held'[c]].ib_client = "up"]_vars

\* C21: after a connect() that failed because the client id is already in
\* use, the next attempt is made with another client id and without any
\* backoff sleep before it.
C21_NextIdWithoutBackoff ==
    [][(ec_pc = "waiting" /\ ec_error = "in_use" /\ ec_pc' = "connecting")
          => (ec_delay' = ec_delay /\ ec_client_id' # ec_client_id)]_vars

\* The messages of refused, timed-out and unreachable connects.
TransientErrors ==
    {"connection refused", "timeout", "no route to host",
     "network is unreachable"}

\* The messages that are neither in-use nor refused, timeout, unreachable.
UnknownErrors ==
    {m \in ErrorMessages : ~IsInUseError(m) /\ m \notin TransientErrors}

\* C22: a connect failure of the unknown class ends the connect sequence:
\* the loop does not go on to a further client id after it.
C22_UnknownAborts ==
    [][(call = "loop" /\ idx' = idx + 1) => last_error' \notin UnknownErrors]_vars

\* C23: a refused, timed-out or unreachable connect does not end the
\* sequence while attempts remain: another attempt follows it.
C23_TransientRetried ==
    [][(call = "loop" /\ idx < NumClientIds /\ idx' # idx
           /\ last_error' \in TransientErrors /\ ib_client' # "up")
          => call' = "loop"]_vars

\* C26: invalidate(symbol) removes every entry stored for that symbol, so
\* that get(symbol, timeframe, period) returns None afterwards for every
\* timeframe and period, and leaves the entries of other symbols as they
\* were.
C26_InvalidateRemovesSymbol ==
    [][(cache_op'.op = "invalidate" /\ cache_op'.timeframe = None
           /\ cache_op'.period = None)
          => \A s \in Symbols, t \in Timeframes, p \in Periods :
                IF s = cache_op'.symbol
                THEN GetResult(cache', s, t, p) = None
                ELSE GetResult(cache', s, t, p) = GetResult(cache, s, t, p)]_vars

\* C24: the candidate list starts with the base id, holds each of
\* base+1 .. base+5 exactly once after it, and its non-base members stand in
\* the order random.shuffle drew, so that orders other than ascending occur.
C24_CandidateOrder ==
    tried # <<>> =>
        /\ Len(tried) = NumClientIds
        /\ tried[1] = base_id
        /\ {tried[i] : i \in 2..NumClientIds}
               = (base_id + 1)..(base_id + NumClientIds - 1)
        /\ Tail(tried) = shuffled

\* C30: whenever connect_to_ib_sync has returned False,
\* connection_status['connected'] is False, whatever the outcomes of the
\* attempts were and whatever the status was before the call.
C30_FalseMeansNotConnected ==
    (cs_attempt = 0 /\ cs_result = "False") => ~cs_status.connected

\* C29: a call of get_connection ends with the pool's timeout error only
\* if it obtained no session from the queue (a timeout error of the
\* caller's own block is not turned into it), and then neither the queue
\* nor any session has changed.
C29_TimeoutOnlyWithoutSession ==
    [][\A c \in Callers :
          (pc[c] # "idle" /\ pc'[c] = "idle" /\ last_result' = "pool_timeout")
             => /\ held[c] = 0
                /\ conn' = conn
                /\ available_connections' = available_connections]_vars

\* C28: whenever get_connection hands a session to its caller, the
\* session's is_healthy() is true at that moment; stated for the sessions
\* handed over with `connected` set, which covers the session that was
\* dequeued connected with a stale heartbeat.
C28_HealthyAtHandOff ==
    [][\A c \in Callers :
          (pc[c] # "using" /\ pc'[c] = "using" /\ conn'[held'[c]].connected)
             => is_healthy(conn'[held'[c]])]_vars

\* C27: over any sequence of initialize, get_connection, release and
\* shutdown, a re-initialization after shutdown included, the queue never
\* holds more than max_connections sessions and no more than
\* max_connections callers hold a lease at once.
C27_BoundedAcrossRestart ==
    /\ Len(available_connections) <= max_connections
    /\ Cardinality({c \in Callers : pc[c] = "using"}) <= max_connections

\* Some other call is inside a connect or its retry sleep, or the monitor
\* is inside a probe.
SlowCallInFlight(c) ==
    \/ \E a \in Callers \ {c} : pc[a] \in {"lock_wait", "connecting", "backoff"}
    \/ hb_pc = "probe"

\* C25: while another get_connection is inside a connect or its backoff
\* sleep, or the monitor inside a probe, a caller asking for a session gets
\* on whenever the queue holds one, and a caller holding one can release
\* it: neither waits for the connect or the probe to finish.
C25_NoPoolWideLock ==
    \A c \in ActiveCallers :
        /\ (/\ Serving
            /\ initialized
            /\ pc[c] = "idle"
            /\ \A d \in Callers : d < c => pc[d] # "idle"
            /\ available_connections # <<>>
            /\ SlowCallInFlight(c)) => ENABLED Request(c)
        /\ (pc[c] = "using" /\ SlowCallInFlight(c)) => ENABLED Release(c)

\* C25 witness: capacity 2, no shutdown; caller 1 is still inside the
\* connect (or the backoff sleep) of a session that has never been
\* connected, and caller 2, whose request can only have come after caller
\* 1's, has been handed the other session.
C25_Witness ==
    /\ max_connections = 2
    /\ sd_pc = "idle"
    /\ pc[1] \in {"connecting", "backoff"}
    /\ ~conn[held[1]].connection_time
    /\ pc[2] = "using"
    /\ held[2] # held[1]

====
